---- MODULE Spec2Model ----
(***************************************************************************)
(* Model of package ssf (src/ssf/samples.go): the SSFSample constructors,  *)
(* the functional options and RandomlySample.                              *)
(*                                                                         *)
(* float32 values are modelled bit-exactly as sign, odd mantissa and       *)
(* binary exponent, with IEEE-754 round-to-nearest-even, gradual underflow *)
(* and NaN.  time.Duration values (int64 nanoseconds) are modelled as a    *)
(* sign and a two-limb magnitude (seconds, nanoseconds).                   *)
(***************************************************************************)
EXTENDS Integers, Sequences, FiniteSets, TLC

(***************************************************************************)
(* float32                                                                 *)
(***************************************************************************)

\* Width of the float32 significand, hidden bit included.
MantBits == 24

\* Exponent of the least subnormal float32, 2^-149.
MinExp == 0 - 149

\* Number of significant bits of the natural m < 2^31.
BitLen(m) == Cardinality({k \in 0..30 : 2 ^ k <= m})

\* Number of trailing zero bits of the natural m, 0 < m < 2^31.
TrailingZeros(m) == Cardinality({k \in 1..30 : m % (2 ^ k) = 0})

\* The float of value (-1)^neg * m * 2^e, m a natural, written with an odd
\* mantissa so that equal values are equal records.
Canon(neg, m, e) ==
    IF m = 0 THEN [nan |-> FALSE, neg |-> FALSE, m |-> 0, e |-> 0]
    ELSE LET tz == TrailingZeros(m)
         IN  [nan |-> FALSE, neg |-> neg, m |-> m \div (2 ^ tz), e |-> e + tz]

NaN == [nan |-> TRUE, neg |-> FALSE, m |-> 0, e |-> 0]

\* The float32 nearest to (-1)^neg * (m + f) * 2^e, where 0 <= f < 1 and
\* sticky says f > 0 (sticky is set only for m of at least 26 bits): the
\* low bits that do not fit 24 bits above 2^-149 are rounded to nearest,
\* ties to even.
Round32(neg, m, e, sticky) ==
    LET bl   == BitLen(m)
        over == bl - MantBits
        sub  == MinExp - e
        d    == IF over > sub THEN over ELSE sub
    IN  IF m = 0 \/ d > bl THEN Canon(neg, 0, 0)
        ELSE IF d <= 0 THEN Canon(neg, m, e)
        ELSE IF d = bl
             THEN IF m > 2 ^ (bl - 1) \/ sticky
                  THEN Canon(neg, 1, e + d) ELSE Canon(neg, 0, 0)
        ELSE LET q    == m \div (2 ^ d)
                 rem  == m % (2 ^ d)
                 half == 2 ^ (d - 1)
                 up   == rem > half \/ (rem = half /\ (sticky \/ q % 2 = 1))
             IN  Canon(neg, IF up THEN q + 1 ELSE q, e + d)

\* a * b in float32.
FMul(a, b) ==
    IF a.nan \/ b.nan THEN NaN
    ELSE Round32(a.neg # b.neg, a.m * b.m, a.e + b.e, FALSE)

\* |a| < |b| for floats that are not NaN.
MagLess(a, b) ==
    IF b.m = 0 THEN FALSE
    ELSE IF a.m = 0 THEN TRUE
    ELSE LET oa == BitLen(a.m) + a.e
             ob == BitLen(b.m) + b.e
         IN  IF oa # ob THEN oa < ob
             ELSE IF a.e >= b.e THEN a.m * (2 ^ (a.e - b.e)) < b.m
             ELSE a.m < b.m * (2 ^ (b.e - a.e))

\* a < b in float32: false when either is NaN.
FLess(a, b) ==
    /\ ~a.nan
    /\ ~b.nan
    /\ IF a.neg /\ ~b.neg THEN TRUE
       ELSE IF ~a.neg /\ b.neg THEN FALSE
       ELSE IF a.neg THEN MagLess(b, a)
       ELSE MagLess(a, b)

\* a <= b in float32: false when either is NaN.
FLe(a, b) == ~a.nan /\ ~b.nan /\ (a = b \/ FLess(a, b))

\* The float32 constants 0 and 1.
FZero == Canon(FALSE, 0, 0)
FOne == Canon(FALSE, 1, 0)

\* 0 < r /\ r <= 1, the test both SampleRate and RandomlySample make.
InUnit(r) == FLess(FZero, r) /\ FLe(r, FOne)

(***************************************************************************)
(* time.Duration                                                           *)
(***************************************************************************)

\* Nanoseconds in a second: the radix of the two-limb magnitudes.
Giga == 10 ^ 9

\* The magnitude hi * 10^9 + lo of an int64, 0 <= lo < 10^9.
Mag(hi, lo) == [hi |-> hi, lo |-> lo]

MagZero == Mag(0, 0)

\* Quotient and remainder of the magnitude a by the natural d,
\* 0 < d <= 2^21, by long division over the base-1000 digits of a.lo.
MagDivSmall(a, d) ==
    LET t1 == ((a.hi % d) * 1000) + (a.lo \div 1000000)
        t2 == ((t1 % d) * 1000) + ((a.lo \div 1000) % 1000)
        t3 == ((t2 % d) * 1000) + (a.lo % 1000)
    IN  [q |-> Mag(a.hi \div d,
                   ((t1 \div d) * 1000000) + ((t2 \div d) * 1000)
                   + (t3 \div d)),
         r |-> t3 % d]

\* The integer quotient of the magnitudes a and b, for b a natural of at
\* most 2^21 or a whole number of seconds.
MagQuo(a, b) ==
    IF b.hi = 0 THEN MagDivSmall(a, b.lo).q
    ELSE Mag(0, a.hi \div b.hi)

\* A time.Duration: a signed count of nanoseconds.
Dur(neg, hi, lo) == [neg |-> neg, mag |-> Mag(hi, lo)]

Nanosecond == Dur(FALSE, 0, 1)
Microsecond == Dur(FALSE, 0, 1000)
Millisecond == Dur(FALSE, 0, 1000000)
Second == Dur(FALSE, 1, 0)
Minute == Dur(FALSE, 60, 0)
Hour == Dur(FALSE, 3600, 0)

\* Whether the integer division value / resolution panics.
DivPanics(value, resolution) == resolution.mag = MagZero

\* value / resolution on int64: the quotient truncated toward zero.
DurQuo(value, resolution) ==
    LET q == MagQuo(value.mag, resolution.mag)
    IN  [neg |-> q # MagZero /\ value.neg # resolution.neg, mag |-> q]

\* The float32 nearest to (-1)^neg * (mag + f), 0 <= f < 1, sticky saying
\* f > 0 (only for mag >= 2^26): a magnitude of two limbs is first cut to
\* its leading 28 or 29 bits.
MagToFloat(neg, mag, sticky) ==
    IF mag.hi = 0 THEN Round32(neg, mag.lo, 0, sticky)
    ELSE LET k  == BitLen(mag.hi) + 1
             k1 == IF k > 21 THEN 21 ELSE k
             d1 == MagDivSmall(mag, 2 ^ k1)
             d2 == MagDivSmall(d1.q, 2 ^ (k - k1))
         IN  Round32(neg, d2.q.lo, k, sticky \/ d1.r # 0 \/ d2.r # 0)

\* float32(d) of an int64 d.
ToFloat32(d) == MagToFloat(d.neg, d.mag, FALSE)

(***************************************************************************)
(* State                                                                   *)
(***************************************************************************)

VARIABLES
    NamePrefix,  \* the package variable NamePrefix
    heap,        \* the Go heap: contents of every allocated tags map
    cur,         \* the caller's sample variable s, NoSample before it is built
    prev,        \* cur as it was before the last option was applied
    call,        \* the last call made: its name and arguments
    hist,        \* the options applied to cur since it was constructed
    panicked,    \* a run-time panic has been raised
    Batch,       \* Samples.Batch of the caller's Samples value
    samples,     \* the argument slice of the last RandomlySample call
    pass,        \* that call's rate and the values rand.Float32() returned
    res,         \* the slice that call returned, as it was returned
    before,      \* the argument slice as it was when that call was made
    retHeap,     \* the heap as it was when that call returned
    passes,      \* the number of RandomlySample calls made
    writes       \* the number of writes the caller made to output samples

vars == <<NamePrefix, heap, cur, prev, call, hist, panicked, Batch, samples,
          pass, res, before, retHeap, passes, writes>>

factoryVars == <<cur, prev, hist>>
samplerVars == <<Batch, samples, pass, res, before, retHeap, passes, writes>>

\* The nil map.
Nil == 0

NoSample == [Metric |-> "none"]

(***************************************************************************)
(* Sample Factory                                                          *)
(***************************************************************************)

\* Unit(name)(s): the closure takes the SSFSample by value, so the
\* assignment lands in the callee's copy; caller is the caller's sample
\* after the call.
Unit(name, s) ==
    LET local == [s EXCEPT !.Unit = name]
    IN  [callee |-> local, caller |-> s]

\* SampleRate without the upper limit of the interval.
SampleRateNoUpper(rate, s) ==
    IF FLess(FZero, rate) THEN [s EXCEPT !.SampleRate = rate] ELSE s

\* SampleRate(rate)(&s).
SampleRate(rate, s) ==
    IF FLess(FZero, rate) /\ FLe(rate, FOne)
    THEN [s EXCEPT !.SampleRate = rate]
    ELSE s

resolutions ==
    (Nanosecond :> "ns") @@ (Microsecond :> "µs") @@ (Millisecond :> "ms")
    @@ (Second :> "s") @@ (Minute :> "min") @@ (Hour :> "h")

\* TimeUnit(resolution)(&s).
TimeUnit(resolution, s) ==
    IF resolution \in DOMAIN resolutions
    THEN [s EXCEPT !.Unit = resolutions[resolution]]
    ELSE s

create(base) == base

\* The fields of SSFSample the package sets; the others keep their zero
\* values.
SSFSample(metric, name, value, message, tags, rate) ==
    [Metric |-> metric, Name |-> name, Value |-> value, Message |-> message,
     Tags |-> tags, Unit |-> "", SampleRate |-> rate]

Count(name, value, tags) ==
    create(SSFSample("COUNTER", NamePrefix \o name, value, "", tags, FOne))

Gauge(name, value, tags) ==
    create(SSFSample("GAUGE", NamePrefix \o name, value, "", tags, FOne))

Histogram(name, value, tags) ==
    create(SSFSample("HISTOGRAM", NamePrefix \o name, value, "", tags, FOne))

Set(name, value, tags) ==
    create(SSFSample("SET", NamePrefix \o name, FZero, value, tags, FOne))

\* Timing, for a resolution whose division does not panic.
Timing(name, value, resolution, tags) ==
    LET time      == ToFloat32(DurQuo(value, resolution))
        ssfsample == Histogram(name, time, tags)
    IN  TimeUnit(resolution, ssfsample)

(***************************************************************************)
(* Sampler                                                                 *)
(***************************************************************************)

\* The inclusion test with < for <=.
IncludedStrict(u, rate) == FLess(u, rate)

\* The inclusion test of one sample: rand.Float32() <= rate.
Included(u, rate) == FLe(u, rate)

\* The adjustment applied twice.
RescaleTwice(rate, s) ==
    IF FLess(FZero, rate) /\ FLe(rate, FOne)
    THEN [s EXCEPT !.SampleRate = FMul(FMul(s.SampleRate, rate), rate)]
    ELSE s

\* The adjustment without the test that rate lies in (0,1].
RescaleAlways(rate, s) == [s EXCEPT !.SampleRate = FMul(s.SampleRate, rate)]

\* The adjustment of an included sample (s is the loop's copy).
Rescale(rate, s) ==
    IF FLess(FZero, rate) /\ FLe(rate, FOne)
    THEN [s EXCEPT !.SampleRate = FMul(s.SampleRate, rate)]
    ELSE s

\* The sample put in front of the result.
CollectFront(r, s) == <<s>> \o r

\* res = append(res, s).
Collect(r, s) == Append(r, s)

\* The loop adjusting the element of the caller's slice itself, as a loop
\* over pointers to the elements would.
LoopBodyInPlace(rate, st, i, u) ==
    IF Included(u, rate)
    THEN LET s == Rescale(rate, st.samples[i])
         IN  [samples |-> [st.samples EXCEPT ![i] = s],
              res |-> Collect(st.res, s)]
    ELSE st

\* One iteration of the range loop, on element i with draw u.  st.samples
\* is the caller's backing array, st.res the slice being built; s is the
\* loop variable, a copy of the element.
LoopBody(rate, st, i, u) ==
    LET s == st.samples[i]
    IN  IF Included(u, rate)
        THEN [samples |-> st.samples, res |-> Collect(st.res, Rescale(rate, s))]
        ELSE st

\* The draw the i-th call of rand.Float32() returns, us being the stream
\* of values the generator produces during the call.
Draw(us, i) == us[i]

RECURSIVE Loop(_, _, _, _)
Loop(rate, st, us, i) ==
    IF i > Len(st.samples) THEN st
    ELSE Loop(rate, LoopBody(rate, st, i, Draw(us, i)), us, i + 1)

\* RandomlySample(rate, samples...): res is the slice returned, samples the
\* caller's slice as the call leaves it.
RandomlySample(rate, in, us) ==
    Loop(rate, [samples |-> in, res |-> <<>>], us, 1)

(***************************************************************************)
(* Bounds and inputs                                                       *)
(***************************************************************************)

\* Options applied to one sample under construction.
MaxOpts == 2
\* Samples in a batch.
MaxBatch == 2
\* RandomlySample passes over a batch.
MaxPasses == 2
\* Writes of the caller to the samples of the result.
MaxWrites == 1

F(m, e) == Canon(FALSE, m, e)

\* The least positive float32, math.SmallestNonzeroFloat32.
Tiny == F(1, MinExp)

Prefixes == {"", "p."}
Names == {"m"}
Values == {F(3, 0 - 1)}
Messages == {"user123"}
TagKeys == {"k"}
TagVals == {"v", "w"}
\* The tags arguments: nil, or the caller's one map.
TagArgs == {Nil, 1}
UnitNames == {"B"}

\* 1500ms, -7ms, 90min.
Durations ==
    {Dur(FALSE, 1, 500000000), Dur(TRUE, 0, 7000000), Dur(FALSE, 5400, 0)}
\* 0, 7ns, -1s and four table entries.
Resolutions ==
    {Dur(FALSE, 0, 0), Dur(FALSE, 0, 7), Dur(TRUE, 1, 0),
     Nanosecond, Millisecond, Second, Hour}
\* 0 and the other two table entries.
OptResolutions == {Dur(FALSE, 0, 0), Microsecond, Minute}

\* NaN, -1/2, 0, 1/2, 1, 3/2.
OptRates ==
    {NaN, Canon(TRUE, 1, 0 - 1), FZero, F(1, 0 - 1), FOne, F(3, 0 - 1)}
\* NaN, -1/2, 0, 1/2, 3/4, 1, 3/2.
Rates ==
    {NaN, Canon(TRUE, 1, 0 - 1), FZero, F(1, 0 - 1), F(3, 0 - 2), FOne,
     F(3, 0 - 1)}
\* Values of rand.Float32(), all in [0,1): the least, 0, and the greatest,
\* 1 - 2^-24.
Draws == {FZero, F(2 ^ MantBits - 1, 0 - MantBits)}

Call(op, a, b) == [op |-> op, a |-> a, b |-> b]

InitCommon ==
    /\ NamePrefix \in Prefixes
    /\ heap = <<[k \in TagKeys |-> "v"]>>
    /\ cur = NoSample
    /\ prev = NoSample
    /\ call = Call("init", "", "")
    /\ hist = <<>>
    /\ panicked = FALSE
    /\ Batch = <<>>
    /\ samples = <<>>
    /\ pass = [rate |-> FOne, draws |-> <<>>]
    /\ res = <<>>
    /\ before = <<>>
    /\ retHeap = heap
    /\ passes = 0
    /\ writes = 0

(***************************************************************************)
(* Actions of the Sample Factory                                           *)
(***************************************************************************)

\* s := <constructor>(...): each behaviour follows one sample from its
\* construction through the options applied to it.
Construct(op, a, b, s) ==
    /\ ~panicked
    /\ cur = NoSample
    /\ cur' = s
    /\ call' = Call(op, a, b)
    /\ UNCHANGED <<NamePrefix, heap, prev, hist, panicked, samplerVars>>

DoCount ==
    \E name \in Names, value \in Values, tags \in TagArgs :
        Construct("Count", value, tags, Count(name, value, tags))

DoGauge ==
    \E name \in Names, value \in Values, tags \in TagArgs :
        Construct("Gauge", value, tags, Gauge(name, value, tags))

DoHistogram ==
    \E name \in Names, value \in Values, tags \in TagArgs :
        Construct("Histogram", value, tags, Histogram(name, value, tags))

DoSet ==
    \E name \in Names, value \in Messages, tags \in TagArgs :
        Construct("Set", value, tags, Set(name, value, tags))

\* s := Timing(name, value, resolution, tags): the division by a zero
\* resolution panics before anything is assigned.
DoTiming ==
    \E name \in Names, value \in Durations, resolution \in Resolutions,
       tags \in TagArgs :
        /\ ~panicked
        /\ cur = NoSample
        /\ call' = Call("Timing", value, resolution)
        /\ IF DivPanics(value, resolution)
           THEN panicked' = TRUE /\ UNCHANGED cur
           ELSE /\ cur' = Timing(name, value, resolution, tags)
                /\ UNCHANGED panicked
        /\ UNCHANGED <<NamePrefix, heap, prev, hist, samplerVars>>

Apply(op, arg, s) ==
    /\ ~panicked
    /\ cur # NoSample
    /\ Len(hist) < MaxOpts
    /\ cur' = s
    /\ prev' = cur
    /\ call' = Call(op, arg, "")
    /\ hist' = Append(hist, Call(op, arg, ""))
    /\ UNCHANGED <<NamePrefix, heap, panicked, samplerVars>>

\* Unit(name)(s)
ApplyUnit == \E name \in UnitNames : Apply("Unit", name, Unit(name, cur).caller)

\* SampleRate(rate)(&s)
ApplySampleRate == \E rate \in OptRates : Apply("SampleRate", rate, SampleRate(rate, cur))

\* TimeUnit(resolution)(&s)
ApplyTimeUnit ==
    \E resolution \in OptResolutions :
        Apply("TimeUnit", resolution, TimeUnit(resolution, cur))

NextFactory ==
    \/ DoCount
    \/ DoGauge
    \/ DoHistogram
    \/ DoSet
    \/ DoTiming
    \/ ApplyUnit
    \/ ApplySampleRate
    \/ ApplyTimeUnit

SpecFactory == InitCommon /\ [][NextFactory]_vars

(***************************************************************************)
(* Actions of the Sampler and of its caller                                *)
(***************************************************************************)

\* The samples a caller builds with the constructors and SampleRate.
BuiltSamples ==
    {SampleRate(F(3, 0 - 1), Count("m", F(3, 0 - 1), Nil)),
     SampleRate(F(1, 0 - 1), Set("m", "user123", 1)),
     SampleRate(Tiny, Timing("m", Dur(FALSE, 1, 500000000), Second, 1))}

\* s.Add(sample...), with one sample.  The caller fills the batch before
\* it samples it.
Add ==
    \E sample \in BuiltSamples :
        /\ passes = 0
        /\ Len(Batch) < MaxBatch
        /\ Batch' = Batch \o <<sample>>
        /\ call' = Call("Add", sample, "")
        /\ UNCHANGED <<NamePrefix, heap, factoryVars, panicked, samples,
                       pass, res, before, retHeap, passes, writes>>

\* in := s.Batch; s.Batch = RandomlySample(rate, in...), the generator
\* producing the stream us during the call.
DoRandomlySample ==
    /\ passes < MaxPasses
    /\ writes = 0
    /\ \E rate \in Rates, us \in [1..Len(Batch) -> Draws] :
        \E out \in {RandomlySample(rate, Batch, us)} :
            /\ passes' = passes + 1
            /\ before' = Batch
            /\ samples' = out.samples
            /\ pass' = [rate |-> rate, draws |-> us]
            /\ res' = out.res
            /\ Batch' = out.res
            /\ retHeap' = heap
            /\ call' = Call("RandomlySample", rate, "")
            /\ UNCHANGED <<NamePrefix, heap, factoryVars, panicked, writes>>

\* s.Batch[i].Unit = name: the caller assigns to a field of an output
\* sample, after its last pass.
SetOutputField ==
    /\ passes > 0
    /\ writes < MaxWrites
    /\ \E i \in 1..Len(Batch), name \in UnitNames :
        /\ Batch' = [Batch EXCEPT ![i].Unit = name]
        /\ writes' = writes + 1
        /\ call' = Call("SetOutputField", i, name)
        /\ UNCHANGED <<NamePrefix, heap, factoryVars, panicked, samples,
                       pass, res, before, retHeap, passes>>

\* s.Batch[i].Tags[k] = v: the caller writes an entry of an output sample's
\* tags map, after its last pass.
SetOutputTag ==
    /\ passes > 0
    /\ writes < MaxWrites
    /\ \E i \in 1..Len(Batch), k \in TagKeys, v \in TagVals :
        /\ Batch[i].Tags # Nil
        /\ heap' = [heap EXCEPT ![Batch[i].Tags][k] = v]
        /\ writes' = writes + 1
        /\ call' = Call("SetOutputTag", i, v)
        /\ UNCHANGED <<NamePrefix, factoryVars, panicked, Batch, samples,
                       pass, res, before, retHeap, passes>>

NextSampler ==
    \/ Add
    \/ DoRandomlySample

SpecSampler == InitCommon /\ [][NextSampler]_vars

NextAlias ==
    \/ Add
    \/ DoRandomlySample
    \/ SetOutputField
    \/ SetOutputTag

SpecAlias == InitCommon /\ [][NextAlias]_vars

(***************************************************************************)
(* Properties                                                              *)
(***************************************************************************)

\* The positions of the input whose draw is at most the rate, in order.
Sel == SelectSeq([i \in 1..Len(pass.draws) |-> i],
                 LAMBDA i : FLe(pass.draws[i], pass.rate))

Half == F(1, 0 - 1)
Quarter == F(1, 0 - 2)
MaxDraw == F(2 ^ MantBits - 1, 0 - MantBits)

\* C1: for a rate in (0,1], every sample a pass returns has the sample rate
\* of its input sample multiplied, once, by the rate (in float32).
C1_RateComposition ==
    (passes > 0 /\ InUnit(pass.rate)) =>
        /\ Len(res) = Len(Sel)
        /\ \A k \in 1..Len(res) :
            res[k].SampleRate = FMul(before[Sel[k]].SampleRate, pass.rate)

\* A pass at rate 1/2 over two samples kept only the one of rate 1/2, which
\* came out with rate 1/4.
C1_Witness ==
    /\ passes > 0
    /\ pass.rate = Half
    /\ Len(before) = 2
    /\ Len(res) = 1
    /\ before[Sel[1]].SampleRate = Half
    /\ res[1].SampleRate = Quarter

\* C2: a pass makes one draw per input sample, each in [0,1), and returns
\* exactly the samples whose own draw is at most the rate; at rate 1 it
\* returns its input unchanged.
C2_Inclusion ==
    passes > 0 =>
        /\ Len(pass.draws) = Len(before)
        /\ \A i \in 1..Len(before) :
            FLe(FZero, pass.draws[i]) /\ FLess(pass.draws[i], FOne)
        /\ Len(res) = Len(Sel)
        /\ \A k \in 1..Len(res) :
            res[k] = [before[Sel[k]] EXCEPT !.SampleRate = res[k].SampleRate]
        /\ (pass.rate = FOne => res = before)

\* A pass at rate 1 over two samples with different draws returned both.
C2_Witness ==
    /\ passes > 0
    /\ pass.rate = FOne
    /\ Len(before) = 2
    /\ pass.draws[1] # pass.draws[2]
    /\ res = before

\* C3: a rate outside (0,1] rescales nothing; above 1 every sample is
\* returned, below 0 none, and at 0 exactly those whose draw was 0.
C3_Degenerate ==
    (passes > 0 /\ ~InUnit(pass.rate)) =>
        /\ Len(res) = Len(Sel)
        /\ \A k \in 1..Len(res) : res[k] = before[Sel[k]]
        /\ (FLess(FOne, pass.rate) => res = before)
        /\ (FLess(pass.rate, FZero) => res = <<>>)
        /\ (pass.rate = FZero =>
                {Sel[k] : k \in 1..Len(Sel)}
                    = {i \in 1..Len(before) : pass.draws[i] = FZero})

\* A pass at rate 0 over two samples returned only the second, drawn 0, with
\* its sample rate (not 1) as it was.
C3_Witness ==
    /\ passes > 0
    /\ pass.rate = FZero
    /\ pass.draws = <<MaxDraw, FZero>>
    /\ Len(res) = 1
    /\ res[1] = before[2]
    /\ res[1].SampleRate # FOne

\* C4: the result of a pass is a subsequence of its input: its elements are
\* the input samples at strictly increasing positions, the same in every
\* field but SampleRate.
C4_Subsequence ==
    passes > 0 =>
        /\ Len(res) <= Len(before)
        /\ \E f \in [1..Len(res) -> 1..Len(before)] :
            /\ \A j, k \in 1..Len(res) : j < k => f[j] < f[k]
            /\ \A k \in 1..Len(res) :
                res[k] = [before[f[k]] EXCEPT !.SampleRate = res[k].SampleRate]

\* A pass at a rate in (0,1) returned two samples that differ.
C4_Witness ==
    /\ passes > 0
    /\ InUnit(pass.rate)
    /\ pass.rate # FOne
    /\ Len(res) = 2
    /\ before[1].Metric # before[2].Metric

\* C5, as claimed: through every pass a surviving sample's rate does not
\* increase and stays in (0,1].
C5_Original ==
    (passes > 0 /\ Len(res) = Len(Sel)) =>
        \A k \in 1..Len(res) :
            /\ FLe(res[k].SampleRate, before[Sel[k]].SampleRate)
            /\ InUnit(res[k].SampleRate)

\* The last rate of the SampleRate options in h that lies in (0,1], 1 if
\* there is none.
LastValidRate(h) ==
    LET valid == {i \in 1..Len(h) : h[i].op = "SampleRate" /\ InUnit(h[i].a)}
    IN  IF valid = {} THEN FOne
        ELSE h[CHOOSE i \in valid : \A j \in valid : j <= i].a

\* C6: SampleRate(rate) sets the rate when it lies in (0,1] and changes
\* nothing otherwise, so the sample's rate is the last valid rate given, or 1.
C6_SampleRateOption ==
    cur # NoSample =>
        /\ cur.SampleRate = LastValidRate(hist)
        /\ call.op = "SampleRate" =>
            cur = IF InUnit(call.a) THEN [prev EXCEPT !.SampleRate = call.a]
                  ELSE prev

\* SampleRate(1/2) then SampleRate(3/2) left the rate at 1/2.
C6_Witness ==
    /\ cur # NoSample
    /\ Len(hist) = 2
    /\ hist[1].op = "SampleRate"
    /\ hist[1].a = Half
    /\ hist[2].op = "SampleRate"
    /\ hist[2].a = F(3, 0 - 1)
    /\ cur.SampleRate = Half

\* C7, as claimed: after Unit(name) is applied the caller's sample has that
\* unit.
C7_Original == call.op = "Unit" => cur.Unit = call.a

\* The float32 nearest to (-1)^neg * (q + rn/rd), for a magnitude q and
\* naturals rn < rd <= 2^22: 54 bits of the fraction are developed, nine at
\* a time, and the leading 27 bits of the sum are rounded.
FracFloat(neg, q, rn, rd) ==
    LET t1 == rn * 512
        t2 == (t1 % rd) * 512
        t3 == (t2 % rd) * 512
        t4 == (t3 % rd) * 512
        t5 == (t4 % rd) * 512
        t6 == (t5 % rd) * 512
        Fa == ((t1 \div rd) * 262144) + ((t2 \div rd) * 512) + (t3 \div rd)
        Fb == ((t4 \div rd) * 262144) + ((t5 \div rd) * 512) + (t6 \div rd)
    IN  IF rn = 0 THEN MagToFloat(neg, q, FALSE)
        ELSE IF q.hi > 0 \/ q.lo >= 2 ^ 26 THEN MagToFloat(neg, q, TRUE)
        ELSE IF q.lo > 0
        THEN LET cut == BitLen(q.lo)
                 s   == 27 - cut
             IN  Round32(neg, (q.lo * (2 ^ s)) + (Fa \div (2 ^ cut)), 0 - s,
                         Fa % (2 ^ cut) # 0 \/ t3 % rd # 0)
        ELSE LET z == 27 - BitLen(Fa)
             IN  Round32(neg, (Fa * (2 ^ z)) + (Fb \div (2 ^ (27 - z))),
                         0 - (27 + z),
                         Fb % (2 ^ (27 - z)) # 0 \/ t6 % rd # 0)

\* The float32 nearest to the real quotient value / resolution, for a
\* resolution of at most 2^21 ns, or a whole number of seconds dividing a
\* whole number of milliseconds.
RealQuo(value, resolution) ==
    LET neg == value.neg # resolution.neg
        a   == value.mag
        b   == resolution.mag
    IN  IF b.hi = 0
        THEN LET dr == MagDivSmall(a, b.lo)
             IN  FracFloat(neg, dr.q, dr.r, b.lo)
        ELSE FracFloat(neg, Mag(0, a.hi \div b.hi),
                       ((a.hi % b.hi) * 1000) + (a.lo \div 1000000),
                       b.hi * 1000)

\* C8, as claimed: Timing returns a HISTOGRAM sample whose value is the real
\* quotient of the duration by the resolution.
C8_Original ==
    (call.op = "Timing" /\ ~panicked) =>
        /\ cur.Metric = "HISTOGRAM"
        /\ cur.Value = RealQuo(call.a, call.b)

\* C9, as claimed: no operation fails, and a resolution outside the table
\* only leaves the unit unset.
C9_Original ==
    /\ ~panicked
    /\ (call.op = "Timing" /\ call.b \notin DOMAIN resolutions) => cur.Unit = ""

\* The samples seq as read through the heap h: each with the contents of its
\* tags map.
View(seq, h) ==
    [i \in 1..Len(seq) |->
        [seq[i] EXCEPT !.Tags = IF @ = Nil THEN <<>> ELSE h[@]]]

\* C10, as claimed: what the caller reads through its input samples, the
\* entries of their tags included, is what it was when RandomlySample was
\* called, whatever is later written to the output samples.
C10_Original == passes > 0 => View(samples, heap) = View(before, retHeap)

\* C10, amended: the call and later writes to output samples leave every
\* field of the input samples as it was, and writes to a field of an output
\* sample stay in that sample; but each output sample holds the very tags
\* map of its input sample, so both read the same entries at all times.
C10_Amended ==
    passes > 0 =>
        /\ samples = before
        /\ Len(Batch) = Len(res)
        /\ Len(res) = Len(Sel)
        /\ \A k \in 1..Len(res) :
            /\ Batch[k].Tags = res[k].Tags
            /\ res[k].Tags = samples[Sel[k]].Tags
            /\ View(Batch, heap)[k].Tags = View(samples, heap)[Sel[k]].Tags

\* After a pass the caller changed an entry of an output sample's tags map,
\* and reads the change through the input samples, which are as they were.
C10_Witness ==
    /\ passes > 0
    /\ writes > 0
    /\ call.op = "SetOutputTag"
    /\ samples = before
    /\ View(samples, heap) # View(before, retHeap)

====
